---- MODULE Spec2Model ----
(***************************************************************************)
(* Model of the Flask front end in app.py: the handlers of /, /create,     *)
(* /remove and /about, their field validation, and the two functions that  *)
(* assemble the PowerShell command line.                                   *)
(*                                                                         *)
(* Text is a sequence of items.  Submitted text is one character per item  *)
(* ("a", " ", "'").  Literal text of the source (a flag, a script name) is *)
(* kept as one whole item (" -Domain "), except the quote that opens or    *)
(* closes an interpolated value, which is the single item "'" and is       *)
(* therefore the same item as a quote typed by the user.  An item equal to *)
(* a flag's text is thus a clause the generator appended itself.           *)
(***************************************************************************)
EXTENDS Integers, Sequences, FiniteSets, TLC

VARIABLES pc, method, path, form, template, flashed, context

vars == <<pc, method, path, form, template, flashed, context>>

----------------------------------------------------------------------------
(* Characters and the character classes of the regular expressions.        *)

Lower == {"a","b","c","d","e","f","g","h","i","j","k","l","m",
          "n","o","p","q","r","s","t","u","v","w","x","y","z"}
Upper == {"A","B","C","D","E","F","G","H","I","J","K","L","M",
          "N","O","P","Q","R","S","T","U","V","W","X","Y","Z"}
Digits == <<"0","1","2","3","4","5","6","7","8","9">>
Digit == {Digits[i] : i \in 1..Len(Digits)}
Alpha == Lower \cup Upper
Hex == Digit \cup {"a","b","c","d","e","f","A","B","C","D","E","F"}

\* str.strip() with no argument removes these from both ends
Whitespace == {" ", "\t", "\n", "\r"}

AllIn(s, class) == \A i \in 1..Len(s) : s[i] \in class

RECURSIVE lstrip(_)
lstrip(s) ==
    IF s # <<>> /\ Head(s) \in Whitespace THEN lstrip(Tail(s)) ELSE s

RECURSIVE rstrip(_)
rstrip(s) ==
    IF s # <<>> /\ s[Len(s)] \in Whitespace
    THEN rstrip(SubSeq(s, 1, Len(s) - 1))
    ELSE s

strip(s) == rstrip(lstrip(s))

\* '$' of re.match (no flags) after k characters were consumed: the end of
\* the string, or just before a newline that is the last character.
AtEnd(s, k) ==
    \/ k = Len(s)
    \/ k = Len(s) - 1 /\ s[Len(s)] = "\n"

\* [a-zA-Z0-9_-]
NameClass == Alpha \cup Digit \cup {"_", "-"}

\* variant: the pattern without its end anchor, r'^[a-zA-Z0-9_-]+'
match_conference_name_prefix(s) ==
    \E k \in 1..Len(s) : AllIn(SubSeq(s, 1, k), NameClass)

\* re.match(r'^[a-zA-Z0-9_-]+$', s)
match_conference_name(s) ==
    \E k \in 1..Len(s) : AllIn(SubSeq(s, 1, k), NameClass) /\ AtEnd(s, k)

\* [a-zA-Z0-9.-]
DomainClass == Alpha \cup Digit \cup {".", "-"}

\* re.match(r'^[a-zA-Z0-9.-]+\.[a-zA-Z]{2,}$', s): i characters of the
\* class, a dot, then the letters up to position k.
match_domain(s) ==
    \E i \in 1..Len(s) : \E k \in (i + 3)..Len(s) :
        /\ AllIn(SubSeq(s, 1, i), DomainClass)
        /\ s[i + 1] = "."
        /\ AllIn(SubSeq(s, i + 2, k), Alpha)
        /\ AtEnd(s, k)

\* the groups of the GUID pattern: {8}-{4}-{4}-{4}-{12}
GuidGroups == <<8, 4, 4, 4, 12>>

RECURSIVE match_groups(_, _, _)
\* hexadecimal groups g.. of GuidGroups from position p on, a hyphen between
\* two groups; the position after the last group, or 0 when there is no match
match_groups(s, g, p) ==
    LET q == p + GuidGroups[g] IN
    IF q - 1 > Len(s) \/ ~AllIn(SubSeq(s, p, q - 1), Hex) THEN 0
    ELSE IF g = Len(GuidGroups) THEN q
    ELSE IF q > Len(s) \/ s[q] # "-" THEN 0
    ELSE match_groups(s, g + 1, q + 1)

\* variant: the pattern without its end anchor
match_guid_prefix(s) == match_groups(s, 1, 1) # 0

\* re.match(r'^[0-9a-fA-F]{8}-[0-9a-fA-F]{4}-...-[0-9a-fA-F]{12}$', s)
match_guid(s) ==
    LET q == match_groups(s, 1, 1) IN q # 0 /\ AtEnd(s, q - 1)

----------------------------------------------------------------------------
(* int(user_count)                                                         *)

DigitValue(c) == (CHOOSE n \in 1..Len(Digits) : Digits[n] = c) - 1

RECURSIVE DecimalValue(_, _)
\* the value of the digits of s, underscores skipped, after the value acc
DecimalValue(s, acc) ==
    IF s = <<>> THEN acc
    ELSE IF Head(s) = "_" THEN DecimalValue(Tail(s), acc)
    ELSE DecimalValue(Tail(s), 10 * acc + DigitValue(Head(s)))

\* a decimal literal as int() takes it: digits, single underscores allowed
\* between two digits only
IsDecimal(s) ==
    /\ s # <<>>
    /\ AllIn(s, Digit \cup {"_"})
    /\ s[1] # "_"
    /\ s[Len(s)] # "_"
    /\ \A i \in 1..(Len(s) - 1) : ~(s[i] = "_" /\ s[i + 1] = "_")

ValueError == [ok |-> FALSE, value |-> 0]

\* int(s) of a str: surrounding whitespace ignored, an optional sign, then
\* a decimal literal; anything else raises ValueError
int(s) ==
    LET t == strip(s)
        signed == t # <<>> /\ t[1] \in {"+", "-"}
        body == IF signed THEN Tail(t) ELSE t
    IN  IF ~IsDecimal(body) THEN ValueError
        ELSE [ok |-> TRUE,
              value |-> IF signed /\ t[1] = "-"
                        THEN 0 - DecimalValue(body, 0)
                        ELSE DecimalValue(body, 0)]

----------------------------------------------------------------------------
(* Configuration                                                           *)

VALID_AZURE_LOCATIONS == <<
    <<"E","a","s","t"," ","U","S">>,
    <<"E","a","s","t"," ","U","S"," ","2">>,
    <<"W","e","s","t"," ","U","S">>,
    <<"W","e","s","t"," ","U","S"," ","2">>,
    <<"W","e","s","t"," ","U","S"," ","3">>,
    <<"C","e","n","t","r","a","l"," ","U","S">>,
    <<"N","o","r","t","h"," ","C","e","n","t","r","a","l"," ","U","S">>,
    <<"S","o","u","t","h"," ","C","e","n","t","r","a","l"," ","U","S">>,
    <<"W","e","s","t"," ","C","e","n","t","r","a","l"," ","U","S">>,
    <<"C","a","n","a","d","a"," ","C","e","n","t","r","a","l">>,
    <<"C","a","n","a","d","a"," ","E","a","s","t">>,
    <<"B","r","a","z","i","l"," ","S","o","u","t","h">>,
    <<"N","o","r","t","h"," ","E","u","r","o","p","e">>,
    <<"W","e","s","t"," ","E","u","r","o","p","e">>,
    <<"U","K"," ","S","o","u","t","h">>,
    <<"U","K"," ","W","e","s","t">>,
    <<"F","r","a","n","c","e"," ","C","e","n","t","r","a","l">>,
    <<"G","e","r","m","a","n","y"," ","W","e","s","t"," ","C","e","n","t","r","a","l">>,
    <<"S","w","i","t","z","e","r","l","a","n","d"," ","N","o","r","t","h">>,
    <<"N","o","r","w","a","y"," ","E","a","s","t">>,
    <<"S","w","e","d","e","n"," ","C","e","n","t","r","a","l">>,
    <<"A","u","s","t","r","a","l","i","a"," ","E","a","s","t">>,
    <<"A","u","s","t","r","a","l","i","a"," ","S","o","u","t","h","e","a","s","t">>,
    <<"A","u","s","t","r","a","l","i","a"," ","C","e","n","t","r","a","l">>,
    <<"J","a","p","a","n"," ","E","a","s","t">>,
    <<"J","a","p","a","n"," ","W","e","s","t">>,
    <<"K","o","r","e","a"," ","C","e","n","t","r","a","l">>,
    <<"K","o","r","e","a"," ","S","o","u","t","h">>,
    <<"S","o","u","t","h","e","a","s","t"," ","A","s","i","a">>,
    <<"E","a","s","t"," ","A","s","i","a">>,
    <<"C","e","n","t","r","a","l"," ","I","n","d","i","a">>,
    <<"S","o","u","t","h"," ","I","n","d","i","a">>,
    <<"W","e","s","t"," ","I","n","d","i","a">>,
    <<"U","A","E"," ","N","o","r","t","h">>,
    <<"S","o","u","t","h"," ","A","f","r","i","c","a"," ","N","o","r","t","h">>
>>

InList(x, list) == \E i \in 1..Len(list) : list[i] = x

\* the literal 'true' a checked box submits
TrueLiteral == <<"t","r","u","e">>

\* request.form.get(key, default)
get(f, key, default) == IF key \in DOMAIN f THEN f[key] ELSE default

\* request.form.get(key) == 'true'
checked(f, key) == key \in DOMAIN f /\ f[key] = TrueLiteral

NoForm == [k \in {} |-> <<>>]
NoContext == [k \in {} |-> <<>>]

----------------------------------------------------------------------------
(* Flash messages                                                          *)

NameRequired == "Conference Name is required"
NameInvalid ==
    "Conference Name must contain only letters, numbers, hyphens, and underscores"
CountRange == "User Count must be between 1 and 1000"
CountInvalid == "User Count must be a valid number"
DomainInvalid == "Domain must be a valid domain name (e.g., company.com)"
SubscriptionInvalid == "Subscription ID must be a valid GUID format"
LocationInvalid == "Please select a valid Azure location"

----------------------------------------------------------------------------
(* Validation                                                              *)

conference_name_errors(conference_name) ==
    IF conference_name = <<>> THEN <<NameRequired>>
    ELSE IF ~match_conference_name(conference_name) THEN <<NameInvalid>>
    ELSE <<>>

\* variant: the lower limit tested as user_count_int < 0
user_count_errors_from_zero(user_count) ==
    LET user_count_int == int(user_count) IN
    IF ~user_count_int.ok THEN <<CountInvalid>>
    ELSE IF user_count_int.value < 0 \/ user_count_int.value > 1000
         THEN <<CountRange>>
    ELSE <<>>

user_count_errors(user_count) ==
    LET user_count_int == int(user_count) IN
    IF ~user_count_int.ok THEN <<CountInvalid>>
    ELSE IF user_count_int.value < 1 \/ user_count_int.value > 1000
         THEN <<CountRange>>
    ELSE <<>>

domain_errors(domain) ==
    IF domain # <<>> /\ ~match_domain(domain) THEN <<DomainInvalid>> ELSE <<>>

subscription_id_errors(subscription_id) ==
    IF subscription_id # <<>> /\ ~match_guid(subscription_id)
    THEN <<SubscriptionInvalid>>
    ELSE <<>>

location_errors(location) ==
    IF location # <<>> /\ ~InList(location, VALID_AZURE_LOCATIONS)
    THEN <<LocationInvalid>>
    ELSE <<>>

\* the fields create_users reads from the form
create_fields(f) ==
    [conference_name |-> strip(get(f, "conference_name", <<>>)),
     user_count |-> get(f, "user_count", <<"1","0">>),
     domain |-> strip(get(f, "domain", <<>>)),
     password |-> strip(get(f, "password", <<>>)),
     force_password_change |-> checked(f, "force_password_change"),
     create_resource_groups |-> checked(f, "create_resource_groups"),
     subscription_id |-> strip(get(f, "subscription_id", <<>>)),
     location |-> strip(get(f, "location", <<>>)),
     dry_run |-> checked(f, "dry_run"),
     excel_output_path |-> strip(get(f, "excel_output_path", <<>>))]

\* variant: validation that stops at the first field in error
create_errors_first(d) ==
    LET errors == conference_name_errors(d.conference_name)
                      \o user_count_errors(d.user_count)
                      \o domain_errors(d.domain)
                      \o subscription_id_errors(d.subscription_id)
                      \o location_errors(d.location)
    IN  IF errors = <<>> THEN errors ELSE <<Head(errors)>>

\* the list errors of create_users
create_errors(d) ==
    conference_name_errors(d.conference_name)
        \o user_count_errors(d.user_count)
        \o domain_errors(d.domain)
        \o subscription_id_errors(d.subscription_id)
        \o location_errors(d.location)

\* the fields remove_users reads from the form
remove_fields(f) ==
    [conference_name |-> strip(get(f, "conference_name", <<>>)),
     domain |-> strip(get(f, "domain", <<>>)),
     remove_groups |-> checked(f, "remove_groups"),
     remove_resource_groups |-> checked(f, "remove_resource_groups"),
     force |-> checked(f, "force"),
     dry_run |-> checked(f, "dry_run")]

\* variant: the domain left unchecked
remove_errors_name_only(d) == conference_name_errors(d.conference_name)

\* the list errors of remove_users
remove_errors(d) ==
    conference_name_errors(d.conference_name) \o domain_errors(d.domain)

----------------------------------------------------------------------------
(* Command generation                                                      *)

Quote == "'"

\* f"'{value}'"
quoted(value) == <<Quote>> \o value \o <<Quote>>

NewScript == ".\\New-ConferenceUsers.ps1"
RemoveScript == ".\\Remove-ConferenceUsers.ps1"

\* variant: the subscription id and the location appended outside the
\* "if create_resource_groups:" block
resource_group_clauses_flat(create_resource_groups, subscription_id, location) ==
    LET rg0 == IF create_resource_groups
               THEN <<" -CreateResourceGroups $true">> ELSE <<>>
        rg1 == IF subscription_id # <<>>
               THEN rg0 \o <<" -SubscriptionId ">> \o quoted(subscription_id)
               ELSE rg0
    IN  IF location # <<>>
        THEN rg1 \o <<" -Location ">> \o quoted(location)
        ELSE rg1

\* the clauses appended under "if create_resource_groups:"
resource_group_clauses(create_resource_groups, subscription_id, location) ==
    IF create_resource_groups
    THEN LET rg0 == <<" -CreateResourceGroups $true">>
             rg1 == IF subscription_id # <<>>
                    THEN rg0 \o <<" -SubscriptionId ">>
                             \o quoted(subscription_id)
                    ELSE rg0
         IN  IF location # <<>>
             THEN rg1 \o <<" -Location ">> \o quoted(location)
             ELSE rg1
    ELSE <<>>

generate_create_command(conference_name, user_count, domain, password, force_password_change, create_resource_groups, subscription_id, location, dry_run, excel_output_path) ==
    LET cmd0 == <<NewScript, " -ConferenceName ">> \o quoted(conference_name)
                    \o <<" -UserCount ">> \o user_count
        cmd1 == IF domain # <<>>
                THEN cmd0 \o <<" -Domain ">> \o quoted(domain) ELSE cmd0
        cmd2 == IF password # <<>>
                THEN cmd1 \o <<" -Password ">> \o quoted(password) ELSE cmd1
        cmd3 == IF ~force_password_change
                THEN cmd2 \o <<" -ForcePasswordChange $false">> ELSE cmd2
        cmd4 == cmd3 \o resource_group_clauses(create_resource_groups,
                                               subscription_id, location)
        cmd5 == IF excel_output_path # <<>>
                THEN cmd4 \o <<" -ExcelOutputPath ">>
                          \o quoted(excel_output_path)
                ELSE cmd4
    IN  IF dry_run THEN cmd5 \o <<" -DryRun">> ELSE cmd5

\* variant: -RemoveGroups $false appended when remove_groups is set
generate_remove_command_flipped(conference_name, domain, remove_groups, remove_resource_groups, force, dry_run) ==
    LET cmd0 == <<RemoveScript, " -ConferenceName ">>
                    \o quoted(conference_name)
        cmd1 == IF domain # <<>>
                THEN cmd0 \o <<" -Domain ">> \o quoted(domain) ELSE cmd0
        cmd2 == IF remove_groups
                THEN cmd1 \o <<" -RemoveGroups $false">> ELSE cmd1
        cmd3 == IF remove_resource_groups
                THEN cmd2 \o <<" -RemoveResourceGroups $true">> ELSE cmd2
        cmd4 == IF force THEN cmd3 \o <<" -Force">> ELSE cmd3
    IN  IF dry_run THEN cmd4 \o <<" -DryRun">> ELSE cmd4

\* variant: -DryRun appended before -Force
generate_remove_command_swapped(conference_name, domain, remove_groups, remove_resource_groups, force, dry_run) ==
    LET cmd0 == <<RemoveScript, " -ConferenceName ">>
                    \o quoted(conference_name)
        cmd1 == IF domain # <<>>
                THEN cmd0 \o <<" -Domain ">> \o quoted(domain) ELSE cmd0
        cmd2 == IF ~remove_groups
                THEN cmd1 \o <<" -RemoveGroups $false">> ELSE cmd1
        cmd3 == IF remove_resource_groups
                THEN cmd2 \o <<" -RemoveResourceGroups $true">> ELSE cmd2
        cmd4 == IF dry_run THEN cmd3 \o <<" -DryRun">> ELSE cmd3
    IN  IF force THEN cmd4 \o <<" -Force">> ELSE cmd4

generate_remove_command(conference_name, domain, remove_groups, remove_resource_groups, force, dry_run) ==
    LET cmd0 == <<RemoveScript, " -ConferenceName ">>
                    \o quoted(conference_name)
        cmd1 == IF domain # <<>>
                THEN cmd0 \o <<" -Domain ">> \o quoted(domain) ELSE cmd0
        cmd2 == IF ~remove_groups
                THEN cmd1 \o <<" -RemoveGroups $false">> ELSE cmd1
        cmd3 == IF remove_resource_groups
                THEN cmd2 \o <<" -RemoveResourceGroups $true">> ELSE cmd2
        cmd4 == IF force THEN cmd3 \o <<" -Force">> ELSE cmd3
    IN  IF dry_run THEN cmd4 \o <<" -DryRun">> ELSE cmd4

----------------------------------------------------------------------------
(* The pages the handlers render: the template, the messages flashed while *)
(* the request was handled, and the template's context.                    *)

create_page(m, f) ==
    IF m = "POST"
    THEN LET d == create_fields(f)
             errors == create_errors(d)
         IN  IF errors # <<>>
             THEN [template |-> "create_users.html",
                   flashed |-> errors,
                   context |-> [locations |-> VALID_AZURE_LOCATIONS,
                                form_data |-> f]]
             ELSE [template |-> "command_result.html",
                   flashed |-> <<>>,
                   context |->
                     [command |-> generate_create_command(
                          d.conference_name, d.user_count, d.domain,
                          d.password, d.force_password_change,
                          d.create_resource_groups, d.subscription_id,
                          d.location, d.dry_run, d.excel_output_path),
                      operation |-> "create",
                      conference_name |-> d.conference_name,
                      user_count |-> d.user_count]]
    ELSE [template |-> "create_users.html",
          flashed |-> <<>>,
          context |-> [locations |-> VALID_AZURE_LOCATIONS]]

remove_page(m, f) ==
    IF m = "POST"
    THEN LET d == remove_fields(f)
             errors == remove_errors(d)
         IN  IF errors # <<>>
             THEN [template |-> "remove_users.html",
                   flashed |-> errors,
                   context |-> [form_data |-> f]]
             ELSE [template |-> "command_result.html",
                   flashed |-> <<>>,
                   context |->
                     [command |-> generate_remove_command(
                          d.conference_name, d.domain, d.remove_groups,
                          d.remove_resource_groups, d.force, d.dry_run),
                      operation |-> "remove",
                      conference_name |-> d.conference_name]]
    ELSE [template |-> "remove_users.html",
          flashed |-> <<>>,
          context |-> NoContext]

----------------------------------------------------------------------------
(* The requests a client submits.                                          *)

MaxNameLen == 3
MaxCountLen == 4
MaxDomainLen == 5

NameChars == {"a", "Z", "7", "_", "-", " ", "\n", "'"}
CountChars == {"0", "1", "-", "+", " ", "_", "x"}
DomainChars == {"a", "1", ".", "-", "_"}
GuidChars == {"0", "f", "A", "g", "-", " ", "'"}

SeqsUpTo(S, n) == UNION {[1..k -> S] : k \in 0..n}

SampleGuid == <<"1","2","3","4","5","6","7","8","-","a","b","c","d","-","A","B","C","D","-","0","0","0","0","-","1","2","3","4","5","6","7","8","9","a","b","c">>

\* SampleGuid with one character replaced, removed or inserted, and its
\* prefixes
GuidEdits ==
    LET n == Len(SampleGuid) IN
    {[SampleGuid EXCEPT ![i] = c] : i \in 1..n, c \in GuidChars}
        \cup {SubSeq(SampleGuid, 1, i - 1) \o SubSeq(SampleGuid, i + 1, n)
                : i \in 1..n}
        \cup {SubSeq(SampleGuid, 1, i) \o <<c>> \o SubSeq(SampleGuid, i + 1, n)
                : i \in 0..n, c \in GuidChars}
        \cup {SubSeq(SampleGuid, 1, i) : i \in 0..n}

\* a field the form does not carry
Absent == <<"(absent)">>

\* the form carrying the fields of r that are not Absent
Form(r) == [k \in {j \in DOMAIN r : r[j] # Absent} |-> r[k]]

Checkbox == {Absent, TrueLiteral}
CheckboxAny == {Absent, TrueLiteral, <<"o","n">>}

SampleName == <<"c","o","n","f","-","1">>
SampleNames == {<<>>, SampleName, <<"m","y"," ","c","o","n","f">>}
SampleCounts == {Absent, <<"5">>, <<"0">>, <<"x">>}
SampleDomains == {<<>>, <<"a","c","m","e",".","i","o">>, <<"a">>}
SamplePasswords == {<<>>, <<"p","w">>, <<"p","'"," ","-","D","r","y","R","u","n"," ","'">>}
SampleSubscriptions == {<<>>, SampleGuid, <<"g">>}
SampleLocations == {<<>>, VALID_AZURE_LOCATIONS[1], <<"M","a","r","s">>}
SamplePaths == {<<>>, <<"o",".","x","l","s","x">>,
                <<"o","'","x",".","x","l","s","x">>}

CreateSample(n, c, d, p, fpc, crg, s, l, dr, x) ==
    Form([conference_name |-> n, user_count |-> c, domain |-> d,
          password |-> p, force_password_change |-> fpc,
          create_resource_groups |-> crg, subscription_id |-> s,
          location |-> l, dry_run |-> dr, excel_output_path |-> x])

RemoveSample(n, d, rg, rrg, fo, dr) ==
    Form([conference_name |-> n, domain |-> d, remove_groups |-> rg,
          remove_resource_groups |-> rrg, force |-> fo, dry_run |-> dr])

\* forms that vary one field over every text of a small alphabet
Names == SeqsUpTo(NameChars, MaxNameLen)
Counts == SeqsUpTo(CountChars, MaxCountLen)
Domains == SeqsUpTo(DomainChars, MaxDomainLen)

NameForm(n) ==
    [conference_name |-> n, force_password_change |-> TrueLiteral,
     remove_groups |-> TrueLiteral]
CountForm(c) == [conference_name |-> SampleName, user_count |-> c]
DomainForm(d) == [conference_name |-> SampleName, domain |-> d]
GuidForm(s, crg) ==
    [conference_name |-> SampleName, subscription_id |-> s,
     create_resource_groups |-> crg]

----------------------------------------------------------------------------
(* The state machine: a request arrives, its handler renders a page, the   *)
(* client receives the page.  The messages flashed are those of the        *)
(* request being handled.                                                  *)

Init ==
    /\ pc = "idle"
    /\ method = ""
    /\ path = ""
    /\ form = NoForm
    /\ template = ""
    /\ flashed = <<>>
    /\ context = NoContext

Submit(m, p, f) ==
    /\ pc' = "request"
    /\ method' = m
    /\ path' = p
    /\ form' = f
    /\ UNCHANGED <<template, flashed, context>>

Render(page) ==
    /\ pc' = "response"
    /\ template' = page.template
    /\ flashed' = page.flashed
    /\ context' = page.context
    /\ UNCHANGED <<method, path, form>>

index ==
    /\ pc = "request"
    /\ path = "/"
    /\ Render([template |-> "index.html", flashed |-> <<>>,
               context |-> NoContext])

create_users ==
    /\ pc = "request"
    /\ path = "/create"
    /\ Render(create_page(method, form))

remove_users ==
    /\ pc = "request"
    /\ path = "/remove"
    /\ Render(remove_page(method, form))

about ==
    /\ pc = "request"
    /\ path = "/about"
    /\ Render([template |-> "about.html", flashed |-> <<>>,
               context |-> NoContext])

Receive ==
    /\ pc = "response"
    /\ pc' = "idle"
    /\ method' = ""
    /\ path' = ""
    /\ form' = NoForm
    /\ template' = ""
    /\ flashed' = <<>>
    /\ context' = NoContext

Posts == {"/create", "/remove"}

SubmitGet ==
    /\ pc = "idle"
    /\ \E p \in {"/", "/create", "/remove", "/about"} : Submit("GET", p, NoForm)

SubmitCreate ==
    /\ pc = "idle"
    /\ \E n \in SampleNames, c \in SampleCounts, d \in SampleDomains,
          p \in SamplePasswords, fpc \in Checkbox, crg \in Checkbox,
          s \in SampleSubscriptions, l \in SampleLocations, dr \in Checkbox,
          x \in SamplePaths :
           Submit("POST", "/create",
                  CreateSample(n, c, d, p, fpc, crg, s, l, dr, x))

SubmitRemove ==
    /\ pc = "idle"
    /\ \E n \in SampleNames, d \in SampleDomains, rg \in CheckboxAny,
          rrg \in CheckboxAny, fo \in CheckboxAny, dr \in CheckboxAny :
           Submit("POST", "/remove", RemoveSample(n, d, rg, rrg, fo, dr))

SubmitName ==
    /\ pc = "idle"
    /\ \E n \in Names, p \in Posts : Submit("POST", p, NameForm(n))

SubmitCount ==
    /\ pc = "idle"
    /\ \E c \in Counts : Submit("POST", "/create", CountForm(c))

SubmitDomain ==
    /\ pc = "idle"
    /\ \E d \in Domains, p \in Posts : Submit("POST", p, DomainForm(d))

SubmitGuid ==
    /\ pc = "idle"
    /\ \E s \in GuidEdits, crg \in {TrueLiteral, <<"o","n">>} :
           Submit("POST", "/create", GuidForm(s, crg))

Next ==
    \/ SubmitGet
    \/ SubmitCreate
    \/ SubmitRemove
    \/ SubmitName
    \/ SubmitCount
    \/ SubmitDomain
    \/ SubmitGuid
    \/ index
    \/ create_users
    \/ remove_users
    \/ about
    \/ Receive

Spec == Init /\ [][Next]_vars

----------------------------------------------------------------------------
(* Vocabulary of the properties, stated without the operators above.       *)

Posted(p) == pc = "response" /\ method = "POST" /\ path = p
PostedAny == Posted("/create") \/ Posted("/remove")

HasCommand == "command" \in DOMAIN context
FormPage == IF path = "/create" THEN "create_users.html" ELSE "remove_users.html"
Redisplayed == template = FormPage /\ ~HasCommand

Among(x, seq) == \E i \in 1..Len(seq) : seq[i] = x

\* s without its leading and trailing whitespace: from its first to its
\* last character that is not whitespace
Trim(s) ==
    LET solid == {i \in 1..Len(s) : s[i] \notin Whitespace} IN
    IF solid = {} THEN <<>>
    ELSE SubSeq(s, CHOOSE i \in solid : \A j \in solid : i <= j,
                   CHOOSE i \in solid : \A j \in solid : i >= j)

\* the value of a text field as the handlers take it
Field(key) == Trim(get(form, key, <<>>))

NameOk(s) ==
    s # <<>> /\ \A i \in 1..Len(s) : s[i] \in Alpha \cup Digit \cup {"_", "-"}

\* C1: on POST /create and POST /remove a conference name that is empty
\* after stripping, or has a character outside [a-zA-Z0-9_-], flashes a
\* conference-name error, redisplays the form and generates no command; any
\* other name produces no conference-name error.
C1_ConferenceNameValidated ==
    PostedAny =>
        IF NameOk(Field("conference_name"))
        THEN ~Among(NameRequired, flashed) /\ ~Among(NameInvalid, flashed)
        ELSE /\ Among(NameRequired, flashed) \/ Among(NameInvalid, flashed)
             /\ Redisplayed

\* a name with a space inside was rejected
C1_Witness ==
    /\ PostedAny
    /\ \E i \in 1..Len(Field("conference_name")) :
          Field("conference_name")[i] = " "
    /\ Among(NameInvalid, flashed)
    /\ Redisplayed

\* C2: on POST /create a user_count that int() does not parse flashes
\* 'User Count must be a valid number' and a page is still rendered; one
\* that parses below 1 or above 1000 flashes 'User Count must be between 1
\* and 1000'; neither generates a command; every integer in 1..1000 passes.
C2_UserCountValidated ==
    Posted("/create") =>
        LET n == int(get(form, "user_count", <<"1","0">>)) IN
        IF ~n.ok
        THEN /\ Among(CountInvalid, flashed) /\ ~Among(CountRange, flashed)
             /\ Redisplayed
        ELSE IF n.value \in 1..1000
        THEN ~Among(CountInvalid, flashed) /\ ~Among(CountRange, flashed)
        ELSE /\ Among(CountRange, flashed) /\ ~Among(CountInvalid, flashed)
             /\ Redisplayed

\* the count 1001 was rejected as out of range
C2_Witness ==
    /\ Posted("/create")
    /\ "user_count" \in DOMAIN form
    /\ int(form.user_count) = [ok |-> TRUE, value |-> 1001]
    /\ Among(CountRange, flashed)
    /\ Redisplayed

\* a domain name: labels of letters, digits and hyphens, none empty, single
\* dots between them, at least two labels, the last one of two or more
\* letters
WellFormedDomain(s) ==
    LET dots == {i \in 1..Len(s) : s[i] = "."}
        last == CHOOSE i \in dots : \A j \in dots : i >= j
    IN  /\ \A i \in 1..Len(s) : s[i] \in Alpha \cup Digit \cup {"-", "."}
        /\ dots # {}
        /\ 1 \notin dots
        /\ \A i \in dots : i + 1 \notin dots
        /\ Len(s) - last >= 2
        /\ \A i \in (last + 1)..Len(s) : s[i] \in Alpha

\* C3: on POST /create and POST /remove a non-empty domain passes validation
\* if and only if it is a well-formed domain name; a malformed one flashes
\* 'Domain must be a valid domain name'.
C3_DomainWellFormed ==
    (PostedAny /\ Field("domain") # <<>>) =>
        (~Among(DomainInvalid, flashed) <=> WellFormedDomain(Field("domain")))

\* 8-4-4-4-12 hexadecimal digits with hyphens between the groups
IsGuid(s) ==
    /\ Len(s) = 36
    /\ \A i \in 1..Len(s) :
          IF i \in {9, 14, 19, 24} THEN s[i] = "-"
          ELSE s[i] \in Digit \cup {"a","b","c","d","e","f",
                                    "A","B","C","D","E","F"}

\* C4: on POST /create a non-empty subscription_id passes validation if and
\* only if it is a GUID of the shape 8-4-4-4-12; any other non-empty value
\* flashes 'Subscription ID must be a valid GUID format' and generates no
\* command; an empty one is accepted.
C4_SubscriptionIdIsGuid ==
    Posted("/create") =>
        IF Field("subscription_id") = <<>> \/ IsGuid(Field("subscription_id"))
        THEN ~Among(SubscriptionInvalid, flashed)
        ELSE Among(SubscriptionInvalid, flashed) /\ Redisplayed

\* a subscription id of the right length with a character that is not a
\* hexadecimal digit was rejected
C4_Witness ==
    /\ Posted("/create")
    /\ Len(Field("subscription_id")) = 36
    /\ ~IsGuid(Field("subscription_id"))
    /\ Among(SubscriptionInvalid, flashed)
    /\ Redisplayed

\* a checkbox counts as set when it submits the literal 'true'
Box(key) == get(form, key, <<>>) = <<"t","r","u","e">>

Cmd == context.command

CreateCommand == Posted("/create") /\ HasCommand
RemoveCommand == Posted("/remove") /\ HasCommand

CreateOrder ==
    <<" -ConferenceName ", " -UserCount ", " -Domain ", " -Password ",
      " -ForcePasswordChange $false", " -CreateResourceGroups $true",
      " -SubscriptionId ", " -Location ", " -ExcelOutputPath ", " -DryRun">>

RemoveOrder ==
    <<" -ConferenceName ", " -Domain ", " -RemoveGroups $false",
      " -RemoveResourceGroups $true", " -Force", " -DryRun">>

Position(x, order) == CHOOSE i \in 1..Len(order) : order[i] = x

\* the flags of a command, in the order they stand in it
FlagsOf(cmd, order) == SelectSeq(cmd, LAMBDA x : Among(x, order))

\* each flag stands later in order than the flag before it
InOrder(flags, order) ==
    \A i \in 1..(Len(flags) - 1) :
        Position(flags[i], order) < Position(flags[i + 1], order)

FailingFields ==
    {k \in 1..5 :
        \/ k = 1 /\ ~NameOk(Field("conference_name"))
        \/ k = 2 /\ path = "/create"
                 /\ LET n == int(get(form, "user_count", <<"1","0">>))
                    IN  ~n.ok \/ n.value \notin 1..1000
        \/ k = 3 /\ Field("domain") # <<>> /\ ~match_domain(Field("domain"))
        \/ k = 4 /\ path = "/create"
                 /\ Field("subscription_id") # <<>>
                 /\ ~IsGuid(Field("subscription_id"))
        \/ k = 5 /\ path = "/create"
                 /\ Field("location") # <<>>
                 /\ ~Among(Field("location"), VALID_AZURE_LOCATIONS)}

\* the field a message is about
FieldOf(message) ==
    CASE message \in {NameRequired, NameInvalid} -> 1
      [] message \in {CountRange, CountInvalid} -> 2
      [] message = DomainInvalid -> 3
      [] message = SubscriptionInvalid -> 4
      [] message = LocationInvalid -> 5

\* C7: validation collects all errors: the messages flashed on POST /create
\* and POST /remove are exactly one per field that fails its validation, in
\* the order conference name, user count, domain, subscription id, location.
C7_OneMessagePerFailingField ==
    PostedAny =>
        /\ {FieldOf(flashed[i]) : i \in 1..Len(flashed)} = FailingFields
        /\ \A i \in 1..(Len(flashed) - 1) :
              FieldOf(flashed[i]) < FieldOf(flashed[i + 1])

\* all five fields of /create failed and five messages were flashed
C7_Witness ==
    Posted("/create") /\ FailingFields = 1..5 /\ Len(flashed) = 5

\* C8: every POST to /create or /remove either redisplays the form with at
\* least one message and the submitted form echoed, without a command, or
\* renders the command result without a message; the command is generated
\* if and only if every validation passed.
C8_FormOrCommand ==
    PostedAny =>
        /\ \/ /\ Redisplayed
              /\ flashed # <<>>
              /\ "form_data" \in DOMAIN context
              /\ context.form_data = form
           \/ /\ template = "command_result.html"
              /\ HasCommand
              /\ flashed = <<>>
        /\ HasCommand <=> FailingFields = {}

\* a POST whose only failing field is the domain was redisplayed with the
\* form echoed
C8_Witness ==
    /\ PostedAny
    /\ FailingFields = {3}
    /\ Redisplayed
    /\ context.form_data = form

\* C9: in every command rendered after validation succeeded, no value that
\* is interpolated between single quotes contains a single quote.
C9_NoQuoteInQuotedValues ==
    (PostedAny /\ HasCommand) =>
        \A key \in {"conference_name", "domain", "password",
                    "subscription_id", "location", "excel_output_path"} :
            ~Among("'", Field(key))

====
